---- MODULE Spec2Model ----
(***************************************************************************)
(* A model of buildscripts/testchangefeed.py: the Tester that drives the   *)
(* notary client from two working directories against one GUN, and the     *)
(* Client.changefeed query it uses to read the server's change feed.       *)
(* The notary client binary and the notary server are not part of the      *)
(* scripts; their behaviour is modelled from the written specification.    *)
(***************************************************************************)
EXTENDS Integers, Sequences, FiniteSets, TLC

VARIABLES
    feed,       \* server: the change feed of all GUNs, oldest first
    remote,     \* server: published metadata of repo_name, None when absent
    dirs,       \* trust directory -> [meta, staged, keys]
    files,      \* paths that exist (trust directories and marker files)
    scenario,   \* index in Tests of the test function being run
    step,       \* index of the next statement of that test function
    status,     \* position of run(): "ca" | "client" | "running" | "passed" |
                \* "done", or "failed" once an exception has left it
    locals,     \* local variables of the running test function
    view,       \* history: trust directory -> listings since the last remote change
    ops,        \* history: completed client operations against repo_name, by kind
    asked,      \* history: the arguments and URL of the last changefeed call
    raised,     \* the last exception raised, None when there was none
    ran,        \* history: the last client invocation and how Client.run ended
    wait,       \* wait_for_server of testclient.py: its locals and position
    stuck,      \* the paths os.remove and rmtree raise OSError for
    call        \* history: the HTTP exchange of the last Client.changefeed call

vars == <<feed, remote, dirs, files, scenario, step, status, locals, view, ops, asked,
          raised, ran, wait, stuck, call>>

\* ------------------------------------------------------------------ bounds

\* Change records of other GUNs that the server may interleave during a run.
MaxOther == 2
\* Longest feed built under PageSpec.
MaxFeed == 4

\* ------------------------------------------------------------- basic values

\* Python's None, and a present value.
None == <<>>
Some(x) == <<x>>

\* Tester.repo_name, and the GUN of some other repository on the same server.
repo_name == "repo"
other_gun == "other"

Abs(n) == IF n < 0 THEN -n ELSE n
Min(a, b) == IF a < b THEN a ELSE b

RECURSIVE Reverse(_)
Reverse(s) == IF s = <<>> THEN <<>> ELSE Reverse(Tail(s)) \o <<Head(s)>>

FirstN(s, n) == SubSeq(s, 1, Min(n, Len(s)))
LastN(s, n) == SubSeq(s, Len(s) - Min(n, Len(s)) + 1, Len(s))

\* ------------------------------------------------- decimal text of integers

DigitChars == <<"0", "1", "2", "3", "4", "5", "6", "7", "8", "9">>

RECURSIVE Digits(_)
Digits(n) ==
    IF n < 10 THEN <<DigitChars[n + 1]>>
    ELSE Digits(n \div 10) \o <<DigitChars[(n % 10) + 1]>>

\* str(start), str(pagesize): the decimal text, as a sequence of characters.
str(n) == IF n < 0 THEN <<"-">> \o Digits(-n) ELSE Digits(n)

DigitVal(c) == CHOOSE d \in 0..9 : DigitChars[d + 1] = c

RECURSIVE ParseNat(_)
ParseNat(s) ==
    IF s = <<>> THEN 0
    ELSE 10 * ParseNat(SubSeq(s, 1, Len(s) - 1)) + DigitVal(s[Len(s)])

\* The server's reading of a query value.
ParseInt(s) == IF Head(s) = "-" THEN -ParseNat(Tail(s)) ELSE ParseNat(s)

\* ------------------------------------------------------- Client.changefeed

\* A variant that lets a false start (0) fall through, as "if start:" would.
changefeed_url_truthy(gun, start, pagesize) ==
    [gun |-> gun,
     query |-> (IF start # None /\ start # Some(0)
                THEN <<[key |-> "change_id", val |-> str(start[1])]>> ELSE <<>>)
            \o (IF pagesize # None
                THEN <<[key |-> "records", val |-> str(pagesize[1])]>> ELSE <<>>)]

\* A variant that never scopes the URL to the GUN.
changefeed_url_global(gun, start, pagesize) ==
    [gun |-> None,
     query |-> (IF start # None
                THEN <<[key |-> "change_id", val |-> str(start[1])]>> ELSE <<>>)
            \o (IF pagesize # None
                THEN <<[key |-> "records", val |-> str(pagesize[1])]>> ELSE <<>>)]

\* A variant that drops the change_id term.
changefeed_url_nostart(gun, start, pagesize) ==
    [gun |-> gun,
     query |-> (IF pagesize # None
                THEN <<[key |-> "records", val |-> str(pagesize[1])]>> ELSE <<>>)]

\* A variant that sends no start below 0.
changefeed_url_clamped(gun, start, pagesize) ==
    [gun |-> gun,
     query |-> (IF start # None
                THEN <<[key |-> "change_id",
                        val |-> str(IF start[1] < 0 THEN 0 ELSE start[1])]>>
                ELSE <<>>)
            \o (IF pagesize # None
                THEN <<[key |-> "records", val |-> str(pagesize[1])]>> ELSE <<>>)]

\* A variant that sends the magnitude of the page size.
changefeed_url_abs(gun, start, pagesize) ==
    [gun |-> gun,
     query |-> (IF start # None
                THEN <<[key |-> "change_id", val |-> str(start[1])]>> ELSE <<>>)
            \o (IF pagesize # None
                THEN <<[key |-> "records", val |-> str(Abs(pagesize[1]))]>> ELSE <<>>)]

\* A variant that drops the records term.
changefeed_url_nosize(gun, start, pagesize) ==
    [gun |-> gun,
     query |-> (IF start # None
                THEN <<[key |-> "change_id", val |-> str(start[1])]>> ELSE <<>>)]

\* A variant that asks for one record fewer than the caller's page size.
changefeed_url_short(gun, start, pagesize) ==
    [gun |-> gun,
     query |-> (IF start # None
                THEN <<[key |-> "change_id", val |-> str(start[1])]>> ELSE <<>>)
            \o (IF pagesize # None
                THEN <<[key |-> "records",
                        val |-> str(IF pagesize[1] > 0 THEN pagesize[1] - 1
                                    ELSE pagesize[1])]>>
                ELSE <<>>)]

\* The changefeed URL: the path is scoped to the GUN when one is given, and the
\* query holds change_id when start is not None, then records when pagesize is
\* not None.
changefeed_url(gun, start, pagesize) ==
    [gun |-> gun,
     query |-> (IF start # None
                THEN <<[key |-> "change_id", val |-> str(start[1])]>> ELSE <<>>)
            \o (IF pagesize # None
                THEN <<[key |-> "records", val |-> str(pagesize[1])]>> ELSE <<>>)]

\* ------------------------------------------------------ the server's feed

\* The page size the server uses when the query has no records term.
ServerDefaultPageSize == 100

\* The value of a query term, None when the term is absent.
QueryTerm(query, key) ==
    LET at == {i \in 1..Len(query) : query[i].key = key}
    IN  IF at = {} THEN None
        ELSE Some(query[CHOOSE i \in at : \A j \in at : i <= j].val)

\* The feed of one GUN, or of all GUNs.
History(fd, gun) ==
    IF gun = None THEN fd ELSE SelectSeq(fd, LAMBDA r : r.GUN = gun[1])

\* The records of a page. A start >= 0 is an absolute position and is
\* exclusive; a negative start stands for the most recent record, which is
\* included. The sign of the page size is the direction of the scan and its
\* magnitude bounds the page.
GetChanges(fd, gun, id, records) ==
    LET h == History(fd, gun)
        n == Abs(records)
    IN  IF id < 0
        THEN IF records >= 0 THEN LastN(h, Min(n, 1))
             ELSE Reverse(LastN(h, n))
        ELSE IF records >= 0
             THEN FirstN(SelectSeq(h, LAMBDA r : r.ID > id), n)
             ELSE FirstN(Reverse(SelectSeq(h, LAMBDA r : r.ID < id)), n)

\* The server's answer to GET <changefeed_url>: {"count": .., "records": ..}.
ServeChangefeed(fd, url) ==
    LET c == QueryTerm(url.query, "change_id")
        r == QueryTerm(url.query, "records")
        id == IF c = None THEN 0 ELSE ParseInt(c[1])
        records == IF r = None THEN ServerDefaultPageSize ELSE ParseInt(r[1])
        page == GetChanges(fd, url.gun, id, records)
    IN  [count |-> Len(page), records |-> page]

\* resp.json() of Client.changefeed.
changefeed(fd, gun, start, pagesize) ==
    ServeChangefeed(fd, changefeed_url(gun, start, pagesize))

\* A change record appended to the feed: the server assigns the next identifier.
NewChange(fd, gun, category) ==
    [ID |-> Len(fd) + 1, GUN |-> gun, Category |-> category]

\* --------------------------------------------------- the notary client

\* Target names and roles in the order a listing prints them.
TargetNames == <<"add_delegation_test", "basic_repo_test",
                 "root_rotation_test_delegation_add",
                 "root_rotation_test_targets_add">>
RoleNames == <<"targets", "targets/releases">>
RootKeyIds == <<"root1", "root2", "root3">>

\* Every line a target listing can hold, in printing order.
TargetLines ==
    [i \in 1..(Len(TargetNames) * Len(RoleNames)) |->
        [name |-> TargetNames[((i - 1) \div Len(RoleNames)) + 1],
         role |-> RoleNames[((i - 1) % Len(RoleNames)) + 1]]]

\* Every line a key listing can hold, in printing order.
KeyLines ==
    [i \in 1..Len(RootKeyIds) |-> [role |-> "root", id |-> RootKeyIds[i]]]
    \o <<[role |-> "targets", id |-> "targets1"],
         [role |-> "snapshot", id |-> "snapshot1"],
         [role |-> "targets/releases", id |-> "delegation1"]>>

\* A trust directory that holds nothing.
EmptyDir == [meta |-> None, staged |-> <<>>, keys |-> {}]

\* The metadata and keys that "init" creates in a trust directory.
InitMeta ==
    [targets |-> {}, delegations |-> {},
     keys |-> {"root1", "targets1", "snapshot1", "timestamp1"},
     rootkeyids |-> <<"root1">>, snapshot |-> "local"]
InitKeys ==
    {[role |-> "root", id |-> "root1"], [role |-> "targets", id |-> "targets1"],
     [role |-> "snapshot", id |-> "snapshot1"]}

\* One staged change applied to metadata.
ApplyChange(m, c) ==
    IF c.type = "target"
    THEN [m EXCEPT !.targets = @ \cup {[name |-> c.name, role |-> c.role]}]
    ELSE [m EXCEPT !.delegations = @ \cup {c.role}]

RECURSIVE ApplyAll(_, _)
ApplyAll(m, staged) ==
    IF staged = <<>> THEN m ELSE ApplyAll(ApplyChange(m, Head(staged)), Tail(staged))

HasKey(keys, role) == \E k \in keys : k.role = role
HasRootKey(keys, m) == \E k \in keys : k.role = "root" /\ k.id = m.rootkeyids[1]

\* The role whose key signs a staged change: a delegation is added by its
\* parent role, a target by the role it is added to.
SigningRole(c) == IF c.type = "target" THEN c.role ELSE "targets"

\* Whether a trust directory holds the keys a publish of these changes needs.
CanSign(keys, m, staged, first) ==
    /\ \A i \in 1..Len(staged) : HasKey(keys, SigningRole(staged[i]))
    /\ m.snapshot = "local" => HasKey(keys, "snapshot")
    /\ first => HasRootKey(keys, m)

\* The text of "list": the published targets, one line each.
ListOutput(m) == SelectSeq(TargetLines, LAMBDA l : l \in m.targets)

\* The text of "delegation list".
DelegationOutput(m) == SelectSeq(RoleNames, LAMBDA r : r \in m.delegations)

\* The text of "key list".
KeyOutput(keys) == SelectSeq(KeyLines, LAMBDA l : l \in keys)

\* The outcome of one client invocation: exit status, output, and the trust
\* directory, remote metadata and feed it leaves.
Outcome(ok, out, d, r, fd) ==
    [ok |-> ok, out |-> out, dir |-> d, remote |-> r, feed |-> fd]
Failure(d, r, fd) == Outcome(FALSE, <<"fatal">>, d, r, fd)

\* init <gun>
CmdInit(d, r, fd) ==
    IF d.meta # None THEN Failure(d, r, fd)
    ELSE Outcome(TRUE, <<>>, [d EXCEPT !.meta = Some(InitMeta), !.keys = InitKeys], r, fd)

\* add <gun> <name> <file> [-r <role>], delegation add <gun> <role> <cert> --all-paths
CmdStage(d, r, fd, c) ==
    Outcome(TRUE, <<>>, [d EXCEPT !.staged = Append(@, c)], r, fd)

\* publish <gun>
CmdPublish(d, r, fd) ==
    IF r = None /\ d.meta = None THEN Failure(d, r, fd)
    ELSE LET base == IF r # None THEN r[1] ELSE d.meta[1]
             new == ApplyAll(base, d.staged)
         IN  IF ~CanSign(d.keys, base, d.staged, r = None) THEN Failure(d, r, fd)
             ELSE Outcome(TRUE, <<>>,
                          [d EXCEPT !.meta = Some(new), !.staged = <<>>],
                          Some(new), Append(fd, NewChange(fd, repo_name, "update")))

\* A variant that prints the cached metadata when the directory holds any,
\* and refreshes the cache afterwards.
CmdList_cached_first(d, r, fd, delegations) ==
    IF r = None THEN Failure(d, r, fd)
    ELSE LET shown == IF d.meta # None THEN d.meta[1] ELSE r[1]
         IN  Outcome(TRUE,
                     IF delegations THEN DelegationOutput(shown) ELSE ListOutput(shown),
                     [d EXCEPT !.meta = r], r, fd)

\* list <gun>, delegation list <gun>: download the published metadata, print it
CmdList(d, r, fd, delegations) ==
    IF r = None THEN Failure(d, r, fd)
    ELSE Outcome(TRUE,
                 IF delegations THEN DelegationOutput(r[1]) ELSE ListOutput(r[1]),
                 [d EXCEPT !.meta = r], r, fd)

\* verify <gun> <name> -i <file> -q
CmdVerify(d, r, fd, name) ==
    IF r = None \/ ~(\E t \in r[1].targets : t.name = name) THEN Failure(d, r, fd)
    ELSE Outcome(TRUE, <<>>, [d EXCEPT !.meta = r], r, fd)

\* key rotate <gun> snapshot -r: the server takes over the snapshot key; the
\* rotation is published at once
CmdRotateSnapshot(d, r, fd) ==
    IF r = None \/ ~HasRootKey(d.keys, r[1]) THEN Failure(d, r, fd)
    ELSE LET new == [r[1] EXCEPT !.snapshot = "server",
                                 !.keys = (@ \ {"snapshot1"}) \cup {"snapshot2"}]
         IN  Outcome(TRUE, <<>>, [d EXCEPT !.meta = Some(new)], Some(new),
                     Append(fd, NewChange(fd, repo_name, "update")))

\* key rotate <gun> root, confirmed on standard input: a new root key becomes
\* the one trusted key, the old one stays among the keys; published at once
CmdRotateRoot(d, r, fd, stdinput) ==
    IF r = None \/ ~HasRootKey(d.keys, r[1]) \/ stdinput # Some("yes")
       \/ (\A i \in 1..Len(RootKeyIds) : RootKeyIds[i] \in r[1].keys)
    THEN Failure(d, r, fd)
    ELSE LET k == RootKeyIds[CHOOSE i \in 1..Len(RootKeyIds) :
                        /\ RootKeyIds[i] \notin r[1].keys
                        /\ \A j \in 1..(i - 1) : RootKeyIds[j] \in r[1].keys]
             new == [r[1] EXCEPT !.keys = @ \cup {k}, !.rootkeyids = <<k>>]
         IN  Outcome(TRUE, <<>>,
                     [d EXCEPT !.meta = Some(new),
                               !.keys = @ \cup {[role |-> "root", id |-> k]}],
                     Some(new), Append(fd, NewChange(fd, repo_name, "update")))

\* key import <file> -r <role>
CmdKeyImport(d, r, fd, role) ==
    Outcome(TRUE, <<>>,
            [d EXCEPT !.keys = @ \cup {[role |-> role, id |-> "delegation1"]}], r, fd)

\* key list
CmdKeyList(d, r, fd) == Outcome(TRUE, KeyOutput(d.keys), d, r, fd)

\* delete --remote <gun>: removes the local and the published metadata
CmdDelete(d, r, fd) ==
    Outcome(TRUE, <<>>, [d EXCEPT !.meta = None, !.staged = <<>>], None,
            Append(fd, NewChange(fd, repo_name, "deletion")))

\* The notary client run with an argument vector in a trust directory.
Notary(args, stdinput, d, r, fd) ==
    CASE args[1] = "init" -> CmdInit(d, r, fd)
      [] args[1] = "add" ->
            CmdStage(d, r, fd, [type |-> "target", name |-> args[3],
                                role |-> IF Len(args) >= 6 THEN args[6] ELSE "targets"])
      [] args[1] = "publish" -> CmdPublish(d, r, fd)
      [] args[1] = "list" -> CmdList(d, r, fd, FALSE)
      [] args[1] = "verify" -> CmdVerify(d, r, fd, args[3])
      [] args[1] = "delete" -> CmdDelete(d, r, fd)
      [] args[1] = "delegation" /\ args[2] = "add" ->
            CmdStage(d, r, fd, [type |-> "delegation", role |-> args[4]])
      [] args[1] = "delegation" /\ args[2] = "list" -> CmdList(d, r, fd, TRUE)
      [] args[1] = "key" /\ args[2] = "import" -> CmdKeyImport(d, r, fd, args[5])
      [] args[1] = "key" /\ args[2] = "list" -> CmdKeyList(d, r, fd)
      [] args[1] = "key" /\ args[2] = "rotate" /\ args[4] = "snapshot" ->
            CmdRotateSnapshot(d, r, fd)
      [] args[1] = "key" /\ args[2] = "rotate" /\ args[4] = "root" ->
            CmdRotateRoot(d, r, fd, stdinput)
      [] OTHER -> Failure(d, r, fd)

\* ------------------------------------------- the statements of the tests

\* self.client.run(args, trust_dir, stdinput), its output bound to a local.
Run(args, dir, out) ==
    [op |-> "run", args |-> args, dir |-> dir, stdinput |-> None, out |-> out]
RunInput(args, dir, stdinput) ==
    [op |-> "run", args |-> args, dir |-> dir, stdinput |-> Some(stdinput), out |-> ""]

\* An argument of a call: a literal, or the value of a local.
Lit(v) == [var |-> "", lit |-> v]
Var(name) == [var |-> name, lit |-> None]

\* out = self.client.changefeed(gun=, start=, pagesize=)
Changefeed(out, start, pagesize) ==
    [op |-> "changefeed", gun |-> Some(repo_name), start |-> start,
     pagesize |-> Some(pagesize), given |-> {"gun", "start", "pagesize"},
     out |-> out]

\* out = <expression over the locals>
Assign(out) == [op |-> "assign", out |-> out]

\* with open(<trust_dir>/tuf/<gun>/metadata/root.json) as root: json.load(root)
ReadRoot(dir) == [op |-> "read_root", dir |-> dir]

\* assert <test>
Check(test, a, b) == [op |-> "assert", test |-> test, a |-> a, b |-> b]

\* A variant with None as the default start.
DefaultStart_none == None

\* The default arguments of Client.changefeed.
DefaultStart == Some(0)
DefaultPageSize == 100

\* out = self.client.changefeed(gun=self.repo_name): start and pagesize take
\* their defaults
ChangefeedGun(out) ==
    [op |-> "changefeed", gun |-> Some(repo_name), start |-> Lit(DefaultStart),
     pagesize |-> Some(DefaultPageSize), given |-> {"gun"}, out |-> out]

\* -- Tester.basic_repo_test

basic_repo_test_publish ==
    << Run(<<"init", repo_name>>, "dir", ""),
       Run(<<"add", repo_name, "basic_repo_test", "tempfile">>, "dir", ""),
       Run(<<"publish", repo_name>>, "dir", "") >>

basic_repo_test_listing ==
    << Run(<<"list", repo_name>>, "dir", "targets1"),
       Run(<<"list", repo_name>>, "tempdir", "targets2"),
       Check("eq", "targets1", "targets2"),
       Check("in", "targets1", "basic_repo_test"),
       Run(<<"verify", repo_name, "basic_repo_test", "-i", "tempfile", "-q">>,
           "dir", "") >>

\* A variant that ends the first test with a remote delete.
basic_repo_test_changes_delete ==
    << ChangefeedGun("changes"),
       Check("count", "changes", 1),
       Check("record0", "GUN", repo_name),
       Check("record0", "Category", "update"),
       Run(<<"delete", "--remote", repo_name>>, "tempdir", "") >>

basic_repo_test_changes ==
    << ChangefeedGun("changes"),
       Check("count", "changes", 1),
       Check("record0", "GUN", repo_name),
       Check("record0", "Category", "update") >>

basic_repo_test ==
    basic_repo_test_publish \o basic_repo_test_listing \o basic_repo_test_changes

\* -- Tester.add_delegation_test

add_delegation_test_delegation ==
    << Run(<<"key", "rotate", repo_name, "snapshot", "-r">>, "dir", ""),
       Run(<<"delegation", "add", repo_name, "targets/releases",
             "secure.example.com.crt", "--all-paths">>, "dir", ""),
       Run(<<"publish", repo_name>>, "dir", ""),
       Run(<<"delegation", "list", repo_name>>, "dir", "delegations1"),
       Run(<<"delegation", "list", repo_name>>, "tempdir", "delegations2"),
       Check("eq", "delegations1", "delegations2"),
       Check("in_roles", "delegations1", "targets/releases") >>

\* A variant that lists the primary before the secondary has published.
add_delegation_test_target_stale ==
    << Run(<<"key", "import", "secure.example.com.key", "-r", "targets/releases">>,
           "tempdir", ""),
       Run(<<"add", repo_name, "add_delegation_test", "tempfile", "-r",
             "targets/releases">>, "tempdir", ""),
       Run(<<"list", repo_name>>, "dir", "targets1"),
       Run(<<"publish", repo_name>>, "tempdir", ""),
       Run(<<"list", repo_name>>, "tempdir", "targets2"),
       Check("eq", "targets1", "targets2"),
       Assign("expected_target"),
       Check("len", "expected_target", 1) >>

add_delegation_test_target ==
    << Run(<<"key", "import", "secure.example.com.key", "-r", "targets/releases">>,
           "tempdir", ""),
       Run(<<"add", repo_name, "add_delegation_test", "tempfile", "-r",
             "targets/releases">>, "tempdir", ""),
       Run(<<"publish", repo_name>>, "tempdir", ""),
       Run(<<"list", repo_name>>, "dir", "targets1"),
       Run(<<"list", repo_name>>, "tempdir", "targets2"),
       Check("eq", "targets1", "targets2"),
       Assign("expected_target"),
       Check("len", "expected_target", 1) >>

add_delegation_test_changes ==
    << ChangefeedGun("changes"),
       Check("count", "changes", 4),
       Check("records", "changes", "update") >>

add_delegation_test ==
    add_delegation_test_delegation \o add_delegation_test_target
        \o add_delegation_test_changes

\* -- Tester.root_rotation_test

root_rotation_test_old_keys ==
    << Run(<<"list", repo_name>>, "tempdir", ""),
       Run(<<"key", "list">>, "dir", "output"),
       Assign("orig_root_key_info"),
       Check("len", "orig_root_key_info", 1),
       ReadRoot("tempdir"),
       Assign("old_root_num_keys"),
       Assign("old_root_certs"),
       Check("len", "old_root_certs", 1) >>

\* A variant that reads the secondary's root.json without the "list" that
\* re-syncs the secondary.
root_rotation_test_rotate_stale ==
    << RunInput(<<"key", "rotate", repo_name, "root">>, "dir", "yes"),
       Run(<<"key", "list">>, "dir", "output"),
       Assign("new_root_key_info"),
       Check("len", "new_root_key_info", 1),
       ReadRoot("tempdir"),
       Check("numkeys", "root_json", "old_root_num_keys"),
       Assign("root_certs"),
       Check("len", "root_certs", 1),
       Check("ne", "root_certs", "old_root_certs") >>

root_rotation_test_rotate ==
    << RunInput(<<"key", "rotate", repo_name, "root">>, "dir", "yes"),
       Run(<<"key", "list">>, "dir", "output"),
       Assign("new_root_key_info"),
       Check("len", "new_root_key_info", 1),
       Run(<<"list", repo_name>>, "tempdir", ""),
       ReadRoot("tempdir"),
       Check("numkeys", "root_json", "old_root_num_keys"),
       Assign("root_certs"),
       Check("len", "root_certs", 1),
       Check("ne", "root_certs", "old_root_certs") >>

\* A variant that publishes from the primary once more.
root_rotation_test_publish_again ==
    << Run(<<"key", "import", "secure.example.com.key", "-r", "targets/releases">>,
           "tempdir", ""),
       Run(<<"add", repo_name, "root_rotation_test_delegation_add", "tempfile", "-r",
             "targets/releases">>, "tempdir", ""),
       Run(<<"publish", repo_name>>, "tempdir", ""),
       Run(<<"add", repo_name, "root_rotation_test_targets_add", "tempfile">>,
           "dir", ""),
       Run(<<"publish", repo_name>>, "dir", ""),
       Run(<<"publish", repo_name>>, "dir", ""),
       Run(<<"list", repo_name>>, "dir", "targets1"),
       Run(<<"list", repo_name>>, "tempdir", "targets2"),
       Check("eq", "targets1", "targets2"),
       Assign("expected_targets"),
       Check("len", "expected_targets", 2) >>

root_rotation_test_publish ==
    << Run(<<"key", "import", "secure.example.com.key", "-r", "targets/releases">>,
           "tempdir", ""),
       Run(<<"add", repo_name, "root_rotation_test_delegation_add", "tempfile", "-r",
             "targets/releases">>, "tempdir", ""),
       Run(<<"publish", repo_name>>, "tempdir", ""),
       Run(<<"add", repo_name, "root_rotation_test_targets_add", "tempfile">>,
           "dir", ""),
       Run(<<"publish", repo_name>>, "dir", ""),
       Run(<<"list", repo_name>>, "dir", "targets1"),
       Run(<<"list", repo_name>>, "tempdir", "targets2"),
       Check("eq", "targets1", "targets2"),
       Assign("expected_targets"),
       Check("len", "expected_targets", 2) >>

root_rotation_test_changes ==
    << ChangefeedGun("changes"),
       Check("count", "changes", 7),
       Check("records", "changes", "update") >>

root_rotation_test ==
    root_rotation_test_old_keys \o root_rotation_test_rotate
        \o root_rotation_test_publish \o root_rotation_test_changes

\* -- Tester.changefeed_test

changefeed_test ==
    << Changefeed("changes", Lit(Some(0)), 1),
       Check("count", "changes", 1),
       Changefeed("all_changes", Lit(Some(0)), 1000),
       Check("count", "all_changes", 7),
       Check("records", "all_changes", "update"),
       Run(<<"delete", "--remote", repo_name>>, "tempdir", ""),
       Changefeed("changes", Lit(Some(-1)), 1),
       Check("count", "changes", 1),
       Check("record0", "Category", "deletion"),
       Assign("start"),
       Changefeed("changes", Var("start"), 1),
       Check("count", "changes", 1),
       Check("id", "changes", 5),
       Changefeed("changes", Var("start"), -1),
       Check("count", "changes", 1),
       Check("id", "changes", 3) >>

\* A variant that calls the delegation test before the basic one.
Tests_swapped ==
    <<add_delegation_test, basic_repo_test, root_rotation_test, changefeed_test>>

\* The test functions in the order Tester.run calls them.
Tests == <<basic_repo_test, add_delegation_test, root_rotation_test, changefeed_test>>

\* ------------------------------------------------ evaluating a statement

\* The locals of a test function before it binds any.
NoLocals ==
    [targets1 |-> None, targets2 |-> None, delegations1 |-> None,
     delegations2 |-> None, output |-> None, orig_root_key_info |-> None,
     new_root_key_info |-> None, root_json |-> None, old_root_num_keys |-> None,
     old_root_certs |-> None, root_certs |-> None, expected_target |-> None,
     expected_targets |-> None, changes |-> None, all_changes |-> None,
     start |-> None]

\* The value of a call argument.
Eval(e, L) == IF e.var = "" THEN e.lit ELSE L[e.var]

\* Whether the right-hand side of an assignment evaluates without raising.
CanCompute(out, L) ==
    CASE out = "new_root_key_info" -> Len(L.orig_root_key_info) >= 1
      [] out \in {"old_root_num_keys", "old_root_certs", "root_certs"} ->
            L.root_json # None
      [] out = "start" -> L.all_changes # None /\ Len(L.all_changes.records) >= 5
      [] OTHER -> TRUE

\* A variant that takes every root key of signed.keys for the trusted ones.
Compute_all_root_keys(out, L) ==
    CASE out = "orig_root_key_info" ->
            SelectSeq(L.output, LAMBDA l : l.role = "root")
      [] out = "new_root_key_info" ->
            SelectSeq(L.output,
                      LAMBDA l : l.role = "root" /\ l # L.orig_root_key_info[1])
      [] out = "old_root_num_keys" -> Cardinality(L.root_json.keys)
      [] out \in {"old_root_certs", "root_certs"} ->
            SelectSeq(RootKeyIds, LAMBDA id : id \in L.root_json.keys)
      [] out = "expected_target" ->
            SelectSeq(L.targets1,
                      LAMBDA l : l.name = "add_delegation_test"
                                 /\ l.role = "targets/releases")
      [] out = "expected_targets" ->
            SelectSeq(L.targets1,
                      LAMBDA l : \/ /\ l.name = "root_rotation_test_delegation_add"
                                    /\ l.role = "targets/releases"
                                 \/ /\ l.name = "root_rotation_test_targets_add"
                                    /\ l.role = "targets")
      [] out = "start" -> Some(L.all_changes.records[5].ID)

\* The right-hand side of an assignment to a local ("start" is kept as the
\* optional value it is passed as).
Compute(out, L) ==
    CASE out = "orig_root_key_info" ->
            SelectSeq(L.output, LAMBDA l : l.role = "root")
      [] out = "new_root_key_info" ->
            SelectSeq(L.output,
                      LAMBDA l : l.role = "root" /\ l # L.orig_root_key_info[1])
      [] out = "old_root_num_keys" -> Cardinality(L.root_json.keys)
      [] out \in {"old_root_certs", "root_certs"} -> L.root_json.rootkeyids
      [] out = "expected_target" ->
            SelectSeq(L.targets1,
                      LAMBDA l : l.name = "add_delegation_test"
                                 /\ l.role = "targets/releases")
      [] out = "expected_targets" ->
            SelectSeq(L.targets1,
                      LAMBDA l : \/ /\ l.name = "root_rotation_test_delegation_add"
                                    /\ l.role = "targets/releases"
                                 \/ /\ l.name = "root_rotation_test_targets_add"
                                    /\ l.role = "targets")
      [] out = "start" -> Some(L.all_changes.records[5].ID)

\* Whether the condition of an assert statement is true (an expression that
\* raises fails the test as a false one does).
AssertHolds(c, L) ==
    CASE c.test = "eq" -> L[c.a] = L[c.b]
      [] c.test = "ne" -> L[c.a] # L[c.b]
      [] c.test = "in" -> \E i \in 1..Len(L[c.a]) : L[c.a][i].name = c.b
      [] c.test = "in_roles" -> \E i \in 1..Len(L[c.a]) : L[c.a][i] = c.b
      [] c.test = "len" -> Len(L[c.a]) = c.b
      [] c.test = "count" -> L[c.a] # None /\ L[c.a].count = c.b
      [] c.test = "record0" ->
            /\ L.changes # None
            /\ Len(L.changes.records) >= 1
            /\ L.changes.records[1][c.a] = c.b
      [] c.test = "records" ->
            /\ L[c.a] # None
            /\ \A i \in 1..Len(L[c.a].records) :
                  /\ L[c.a].records[i].GUN = repo_name
                  /\ L[c.a].records[i].Category = c.b
      [] c.test = "id" ->
            /\ L[c.a] # None /\ L.all_changes # None
            /\ Len(L[c.a].records) >= 1
            /\ Len(L.all_changes.records) >= c.b + 1
            /\ L[c.a].records[1].ID = L.all_changes.records[c.b + 1].ID
      [] c.test = "numkeys" ->
            L[c.a] # None /\ Cardinality(L[c.a].keys) = L[c.b] + 1

\* ------------------------------------------------------------ exceptions

\* An exception of some type, not caught so far.
Exc(type) ==
    [type |-> type, caught |-> FALSE, returncode |-> 0, cmd |-> <<>>, output |-> <<>>]

\* CalledProcessError(retcode, command, output=output)
CalledProcessError(retcode, command, output) ==
    [type |-> "CalledProcessError", caught |-> FALSE, returncode |-> retcode,
     cmd |-> command, output |-> output]

\* A variant in which Tester.run swallows the exception of a test function.
Raise_swallowed(exc) ==
    /\ status' = status
    /\ raised' = Some(exc)

\* An exception leaves the test function: Tester.run re-raises it and run()
\* has no handler, so the process ends.
Raise(exc) ==
    /\ status' = "failed"
    /\ raised' = Some(exc)

\* ----------------------------------------------------------------- cleanup

MainDir == "main"
TempDirs == <<"temp1", "temp2", "temp3", "temp4">>
TempFiles == <<"file1", "file2", "file3", "file4">>
DirNames == {MainDir} \cup {TempDirs[i] : i \in 1..Len(TempDirs)}

\* The CA certificate file get_dtr_ca writes, and /test_output/SUCCESS.
CaFile == "ca"
Sentinel == "SUCCESS"

\* A variant without the rmtree fallback: directories stay.
cleanup_files_only(paths, fs) ==
    fs \ {p \in paths : p \notin DirNames /\ p \notin stuck}

\* cleanup(*paths): os.remove removes a file; on a directory it raises OSError
\* and rmtree removes the directory; a path that neither can remove stays, the
\* OSError passed over.
cleanup(paths, fs) ==
    LET removed == {p \in paths : p \notin DirNames /\ p \notin stuck}
        rmtreed == {p \in paths \ removed : p \in DirNames /\ p \notin stuck}
    IN  fs \ (removed \cup rmtreed)

\* The paths whose removal may fail in a run: none, or one of these.
Unremovable == {MainDir, TempDirs[2], TempFiles[3]}
StuckSets == {{}} \cup {{p} : p \in Unremovable}

\* -------------------------------------------------------------- Client.run

\* The -s argument of the script (argparse requires it).
notary_server == Some("https://notary")

\* command = self.client + ["-d", trust_dir] + list(args)
command(args, trust_dir) ==
    <<"notary", "-s", notary_server[1], "--tlscacert", CaFile, "-d", trust_dir>>
        \o args

\* The exit statuses of a client that failed.
FailCodes == {1, 2}

\* What the client prints when it fails.
FailOutput == <<"fatal">>

\* A variant without "if retcode: raise": the output is returned whatever
\* the exit status.
run_result_ignored(retcode, cmd, output) ==
    [raises |-> None, returns |-> Some(output)]

\* The end of Client.run: CalledProcessError when the exit status is not 0,
\* else the output.
run_result(retcode, cmd, output) ==
    IF retcode # 0
    THEN [raises |-> Some(CalledProcessError(retcode, cmd, output)), returns |-> None]
    ELSE [raises |-> None, returns |-> Some(output)]

\* ------------------------------------- Client.changefeed: the exchange

\* sleep(60), the "blackout for rethinkdb".
BlackoutSeconds == 60

\* What the body of an HTTP response is: JSON with the expected field, JSON
\* without it, or no JSON at all.
Bodies == {"json", "no_field", "not_json"}

\* A variant that asks for a token again when the response holds none.
changefeed_call_retrying(fd, gun, start, pagesize, token_resp, feed_body) ==
    IF token_resp.body # "json"
    THEN [slept |-> BlackoutSeconds, trace |-> <<"sleep", "token", "token">>,
          bearer |-> None, raises |-> Some(Exc("KeyError")), returns |-> None]
    ELSE [slept |-> BlackoutSeconds, trace |-> <<"sleep", "token", "feed">>,
          bearer |-> Some(token_resp),
          raises |-> IF feed_body = "not_json" THEN Some(Exc("ValueError")) ELSE None,
          returns |-> IF feed_body = "not_json" THEN None
                      ELSE Some(changefeed(fd, gun, start, pagesize))]

\* Client.changefeed from the first line to the last: sleep(60); the token
\* request, whose status is not looked at: resp.json() raises ValueError on a
\* body that is not JSON and ["token"] raises KeyError without the field; the
\* feed request with the token as bearer; resp.json() of its response.
changefeed_call(fd, gun, start, pagesize, token_resp, feed_body) ==
    IF token_resp.body = "not_json"
    THEN [slept |-> BlackoutSeconds, trace |-> <<"sleep", "token">>,
          bearer |-> None, raises |-> Some(Exc("ValueError")), returns |-> None]
    ELSE IF token_resp.body = "no_field"
    THEN [slept |-> BlackoutSeconds, trace |-> <<"sleep", "token">>,
          bearer |-> None, raises |-> Some(Exc("KeyError")), returns |-> None]
    ELSE [slept |-> BlackoutSeconds, trace |-> <<"sleep", "token", "feed">>,
          bearer |-> Some(token_resp),
          raises |-> IF feed_body = "not_json" THEN Some(Exc("ValueError")) ELSE None,
          returns |-> IF feed_body = "not_json" THEN None
                      ELSE Some(changefeed(fd, gun, start, pagesize))]

\* The history entry of a call.
Called(token_resp, feed_body, c) ==
    Some([token |-> token_resp, feed_body |-> feed_body, slept |-> c.slept,
          trace |-> c.trace, bearer |-> c.bearer, raises |-> c.raises,
          returned |-> c.returns # None])

\* The token responses the run of the tests meets: the token granted, and
\* the request refused with a body that holds no token.
Granted == [status |-> 200, body |-> "json"]
Refused == [status |-> 401, body |-> "no_field"]

\* ------------------------------------------------------------- Tester.run

\* A variant that hands every test function the first test's tempdir.
TrustDir_first(dir) == IF dir = "dir" THEN MainDir ELSE TempDirs[1]

\* The trust directory a statement names: self.dir or the test's tempdir.
TrustDir(dir) == IF dir = "dir" THEN MainDir ELSE TempDirs[scenario]

InTest == status = "running" /\ scenario \in 1..Len(Tests)
AtStatement == InTest /\ step \in 1..Len(Tests[scenario])
Stmt == Tests[scenario][step]

\* The kind of a client operation, for the history of completed operations.
OpKind(args) ==
    IF args[1] = "key" \/ args[1] = "delegation" THEN args[1] \o "_" \o args[2]
    ELSE args[1]

OpKinds == {"init", "add", "publish", "list", "verify", "delete", "key_rotate",
            "key_import", "key_list", "delegation_add", "delegation_list"}

NoView == [targets |-> None, delegations |-> None]

\* wait_for_server not entered.
NoWait == [pc |-> "idle", timeout |-> 0, now |-> 0, succeeded |-> FALSE, probes |-> 0]

\* run() of testchangefeed.py, the arguments parsed and the client built.
Init ==
    /\ feed = <<>>
    /\ remote = None
    /\ dirs = [d \in DirNames |-> EmptyDir]
    /\ files = {}
    /\ scenario = 1
    /\ step = 0
    /\ status = "ca"
    /\ locals = NoLocals
    /\ view = [d \in DirNames |-> NoView]
    /\ ops = [k \in OpKinds |-> 0]
    /\ asked = None
    /\ raised = None
    /\ ran = None
    /\ wait = NoWait
    /\ stuck \in StuckSets
    /\ call = None

\* The HTTP statuses the server may answer GET <server>/ca with.
StatusCodes == {200, 404, 500}

\* ca_file_path = get_dtr_ca(server): the certificate saved to a temporary
\* file, or an exception when the status is not 200
GetDtrCa ==
    /\ status = "ca"
    /\ \E status_code \in StatusCodes :
          IF status_code # 200
          THEN Raise(Exc("Exception")) /\ UNCHANGED files
          ELSE /\ files' = files \cup {CaFile}
               /\ status' = "client"
               /\ UNCHANGED raised
    /\ UNCHANGED <<feed, remote, dirs, scenario, step, locals, view, ops, asked, ran, wait, stuck, call>>

\* cl = Client(server, ca_file_path, username_passwd), which raises without a
\* server or a CA file; Tester(repo_name, cl) makes self.dir; .run() starts
NewTester ==
    /\ status = "client"
    /\ LET ca_file_path == IF CaFile \in files THEN Some(CaFile) ELSE None
       IN  IF notary_server = None \/ ca_file_path = None
           THEN Raise(Exc("Exception")) /\ UNCHANGED files
           ELSE /\ files' = files \cup {MainDir}
                /\ status' = "running"
                /\ UNCHANGED raised
    /\ UNCHANGED <<feed, remote, dirs, scenario, step, locals, view, ops, asked, ran, wait, stuck, call>>

\* mkstemp(), the marker file written, mkdtemp(suffix="_temp"), test_func called
StartTest ==
    /\ InTest /\ step = 0
    /\ files' = files \cup {TempFiles[scenario], TempDirs[scenario]}
    /\ locals' = NoLocals
    /\ step' = 1
    /\ UNCHANGED <<feed, remote, dirs, scenario, status, view, ops, asked, raised,
                   ran, wait, stuck, call>>

\* self.client.run(args, trust_dir, stdinput) with the subprocess ending with
\* this exit status: 0 with the client's work done, else with nothing done
ClientRun(retcode) ==
    /\ AtStatement /\ Stmt.op = "run"
    /\ LET d == TrustDir(Stmt.dir)
           o == Notary(Stmt.args, Stmt.stdinput, dirs[d], remote, feed)
           kind == OpKind(Stmt.args)
           listed == [view EXCEPT ![d] =
                        IF kind = "list" THEN [@ EXCEPT !.targets = Some(o.out)]
                        ELSE IF kind = "delegation_list"
                             THEN [@ EXCEPT !.delegations = Some(o.out)]
                             ELSE @]
           output == IF retcode = 0 THEN o.out ELSE FailOutput
           res == run_result(retcode, command(Stmt.args, d), output)
       IN  /\ retcode = 0 => o.ok
           /\ IF retcode = 0
              THEN /\ dirs' = [dirs EXCEPT ![d] = o.dir]
                   /\ remote' = o.remote
                   /\ feed' = o.feed
                   /\ view' = IF o.feed # feed THEN [x \in DirNames |-> NoView]
                              ELSE listed
                   /\ ops' = [ops EXCEPT ![kind] = @ + 1]
              ELSE UNCHANGED <<dirs, remote, feed, view, ops>>
           /\ ran' = Some([cmd |-> command(Stmt.args, d), retcode |-> retcode,
                           output |-> output, returns |-> res.returns,
                           raises |-> res.raises])
           /\ IF res.raises # None
              THEN Raise(res.raises[1]) /\ UNCHANGED <<locals, step>>
              ELSE /\ locals' = IF Stmt.out = "" THEN locals
                                ELSE [locals EXCEPT ![Stmt.out] = res.returns[1]]
                   /\ step' = step + 1
                   /\ UNCHANGED <<status, raised>>
    /\ UNCHANGED <<files, scenario, asked, wait, stuck, call>>

\* self.client.run(...) with exit status 0
RunClient == ClientRun(0)

\* self.client.run(...) raising CalledProcessError: the client refused the
\* command, or failed for a reason outside the model (retcode != 0)
RunClientFails == \E retcode \in FailCodes : ClientRun(retcode)

\* out = self.client.changefeed(...); an exception of the call fails the test
RunChangefeed ==
    /\ AtStatement /\ Stmt.op = "changefeed"
    /\ \E token_resp \in {Granted, Refused} :
       LET start == Eval(Stmt.start, locals)
           c == changefeed_call(feed, Stmt.gun, start, Stmt.pagesize, token_resp,
                                "json")
       IN  /\ call' = Called(token_resp, "json", c)
           /\ IF c.raises # None
              THEN /\ Raise(c.raises[1])
                   /\ UNCHANGED <<locals, asked, step>>
              ELSE /\ locals' = [locals EXCEPT ![Stmt.out] = c.returns[1]]
                   /\ asked' = Some([gun |-> Stmt.gun, start |-> start,
                                     pagesize |-> Stmt.pagesize,
                                     given |-> Stmt.given, feed |-> feed,
                                     url |-> changefeed_url(Stmt.gun, start,
                                                            Stmt.pagesize),
                                     resp |-> c.returns[1]])
                   /\ step' = step + 1
                   /\ UNCHANGED <<status, raised>>
    /\ UNCHANGED <<feed, remote, dirs, files, scenario, view, ops, ran, wait, stuck>>

\* out = <expression>; an expression that raises fails the test
RunAssign ==
    /\ AtStatement /\ Stmt.op = "assign"
    /\ IF CanCompute(Stmt.out, locals)
       THEN /\ locals' = [locals EXCEPT ![Stmt.out] = Compute(Stmt.out, locals)]
            /\ step' = step + 1
            /\ UNCHANGED <<status, raised>>
       ELSE /\ Raise(Exc("IndexError"))
            /\ UNCHANGED <<locals, step>>
    /\ UNCHANGED <<feed, remote, dirs, files, scenario, view, ops, asked, ran, wait, stuck, call>>

\* root_json = json.load(root) of the trust directory's cached root.json
RunReadRoot ==
    /\ AtStatement /\ Stmt.op = "read_root"
    /\ LET d == dirs[TrustDir(Stmt.dir)]
       IN  IF d.meta # None
           THEN /\ locals' = [locals EXCEPT !.root_json = d.meta[1]]
                /\ step' = step + 1
                /\ UNCHANGED <<status, raised>>
           ELSE /\ Raise(Exc("IOError"))
                /\ UNCHANGED <<locals, step>>
    /\ UNCHANGED <<feed, remote, dirs, files, scenario, view, ops, asked, ran, wait, stuck, call>>

\* assert <test>: AssertionError leaves Tester.run
RunAssert ==
    /\ AtStatement /\ Stmt.op = "assert"
    /\ IF AssertHolds(Stmt, locals)
       THEN step' = step + 1 /\ UNCHANGED <<status, raised>>
       ELSE Raise(Exc("AssertionError")) /\ UNCHANGED step
    /\ UNCHANGED <<feed, remote, dirs, files, scenario, locals, view, ops, asked,
                   ran, wait, stuck, call>>

\* the test function returned: cleanup(tempfile, tempdir), next test function
EndTest ==
    /\ InTest /\ step = Len(Tests[scenario]) + 1
    /\ files' = cleanup({TempFiles[scenario], TempDirs[scenario]}, files)
    /\ dirs' = [dirs EXCEPT ![TempDirs[scenario]] =
                  IF TempDirs[scenario] \in files' THEN @ ELSE EmptyDir]
    /\ scenario' = scenario + 1
    /\ step' = 0
    /\ UNCHANGED <<feed, remote, status, locals, view, ops, asked, raised, ran, wait, stuck, call>>

\* after the last test function: cleanup(self.dir); Tester.run returns
Finish ==
    /\ status = "running" /\ scenario = Len(Tests) + 1
    /\ files' = cleanup({MainDir}, files)
    /\ dirs' = [dirs EXCEPT ![MainDir] = IF MainDir \in files' THEN @ ELSE EmptyDir]
    /\ status' = "passed"
    /\ UNCHANGED <<feed, remote, scenario, step, locals, view, ops, asked, raised,
                   ran, wait, stuck, call>>

\* A variant that writes the sentinel whether or not an exception ended the
\* run, as a "finally" would.
WriteSuccess_always ==
    /\ status \in {"passed", "failed"}
    /\ files' = cleanup({CaFile}, files \cup {Sentinel})
    /\ status' = "done"
    /\ UNCHANGED <<feed, remote, dirs, scenario, step, locals, view, ops, asked, ran,
                   raised, wait, stuck, call>>

\* open("/test_output/SUCCESS", 'wb'), write, chmod; an IOError is passed
\* over; finally cleanup(ca_file_path)
WriteSuccess ==
    /\ status = "passed"
    /\ \E ioerror \in BOOLEAN :
          IF ioerror
          THEN /\ raised' = Some([Exc("IOError") EXCEPT !.caught = TRUE])
               /\ files' = cleanup({CaFile}, files)
          ELSE /\ UNCHANGED raised
               /\ files' = cleanup({CaFile}, files \cup {Sentinel})
    /\ status' = "done"
    /\ UNCHANGED <<feed, remote, dirs, scenario, step, locals, view, ops, asked, ran,
                   wait, stuck, call>>

\* The number of records of other GUNs in the feed.
OtherCount == Len(SelectSeq(feed, LAMBDA r : r.GUN # repo_name))

\* Another client of the server changes another GUN: a record joins the feed.
OtherChange ==
    /\ OtherCount < MaxOther
    /\ \E category \in {"update", "deletion"} :
          feed' = Append(feed, NewChange(feed, other_gun, category))
    /\ UNCHANGED <<remote, dirs, files, scenario, step, status, locals, view, ops,
                   asked, raised, ran, wait, stuck, call>>

Next ==
    \/ GetDtrCa
    \/ NewTester
    \/ StartTest
    \/ RunClient
    \/ RunClientFails
    \/ RunChangefeed
    \/ RunAssign
    \/ RunReadRoot
    \/ RunAssert
    \/ EndTest
    \/ Finish
    \/ WriteSuccess
    \/ OtherChange

Spec == Init /\ [][Next]_vars

\* ------------------------------------------- queries over arbitrary feeds

\* The start and page size arguments tried against a feed.
Starts == {None} \cup {Some(n) : n \in -2..(MaxFeed + 1)}
PageSizes == {None} \cup {Some(n) : n \in -(MaxFeed + 1)..(MaxFeed + 1)}

PageInit ==
    /\ feed = <<>>
    /\ remote = None
    /\ dirs = [d \in DirNames |-> EmptyDir]
    /\ files = {MainDir}
    /\ scenario = 0
    /\ step = 0
    /\ status = "idle"
    /\ locals = NoLocals
    /\ view = [d \in DirNames |-> NoView]
    /\ ops = [k \in OpKinds |-> 0]
    /\ asked = None
    /\ raised = None
    /\ ran = None
    /\ wait = NoWait
    /\ stuck = {}
    /\ call = None

\* The server records a change of some GUN.
PageAppend ==
    /\ asked = None /\ Len(feed) < MaxFeed
    /\ \E gun \in {repo_name, other_gun}, category \in {"update", "deletion"} :
          feed' = Append(feed, NewChange(feed, gun, category))
    /\ UNCHANGED <<remote, dirs, files, scenario, step, status, locals, view, ops,
                   asked, raised, ran, wait, stuck, call>>

\* Client.changefeed called with some arguments; a parameter the caller does
\* not give takes its default.
PageQuery ==
    /\ asked = None
    /\ \E gun \in {None, Some(repo_name)}, given \in SUBSET {"start", "pagesize"} :
       \E start \in (IF "start" \in given THEN Starts ELSE {DefaultStart}),
          pagesize \in (IF "pagesize" \in given THEN PageSizes
                        ELSE {Some(DefaultPageSize)}) :
          LET c == changefeed_call(feed, gun, start, pagesize, Granted, "json")
              resp == c.returns[1]
          IN  /\ locals' = [locals EXCEPT !.changes = resp]
              /\ call' = Called(Granted, "json", c)
              /\ asked' = Some([gun |-> gun, start |-> start, pagesize |-> pagesize,
                                given |-> given \cup (IF gun = None THEN {}
                                                      ELSE {"gun"}),
                                feed |-> feed,
                                url |-> changefeed_url(gun, start, pagesize),
                                resp |-> resp])
    /\ UNCHANGED <<feed, remote, dirs, files, scenario, step, status, view, ops,
                   raised, ran, wait, stuck>>

PageNext == PageAppend \/ PageQuery

PageSpec == PageInit /\ [][PageNext]_vars

\* ------------------------------ calls of Client.changefeed, any response

\* The longest feed a call is tried against.
MaxCallFeed == 2

\* The HTTP statuses the token endpoint may answer with, and its responses.
TokenStatuses == {200, 401, 500}
TokenResponses == [status : TokenStatuses, body : Bodies]

CallInit ==
    /\ feed = <<>>
    /\ remote = None
    /\ dirs = [d \in DirNames |-> EmptyDir]
    /\ files = {MainDir}
    /\ scenario = 0
    /\ step = 0
    /\ status = "calling"
    /\ locals = NoLocals
    /\ view = [d \in DirNames |-> NoView]
    /\ ops = [k \in OpKinds |-> 0]
    /\ asked = None
    /\ raised = None
    /\ ran = None
    /\ wait = NoWait
    /\ stuck = {}
    /\ call = None

\* The server records a change of some GUN.
CallAppend ==
    /\ call = None /\ Len(feed) < MaxCallFeed
    /\ \E gun \in {repo_name, other_gun}, category \in {"update", "deletion"} :
          feed' = Append(feed, NewChange(feed, gun, category))
    /\ UNCHANGED <<remote, dirs, files, scenario, step, status, locals, view, ops,
                   asked, raised, ran, wait, stuck, call>>

\* Client.changefeed called, the token endpoint and the feed endpoint
\* answering in any of the ways they may.
CallChangefeed ==
    /\ call = None
    /\ \E gun \in {None, Some(repo_name)}, start \in {DefaultStart, Some(-1)},
          pagesize \in {Some(1), Some(DefaultPageSize)},
          token_resp \in TokenResponses, feed_body \in {"json", "not_json"} :
          LET c == changefeed_call(feed, gun, start, pagesize, token_resp, feed_body)
          IN  /\ call' = Called(token_resp, feed_body, c)
              /\ IF c.raises # None
                 THEN Raise(c.raises[1]) /\ UNCHANGED <<locals, asked>>
                 ELSE /\ locals' = [locals EXCEPT !.changes = c.returns[1]]
                      /\ asked' = Some([gun |-> gun, start |-> start,
                                        pagesize |-> pagesize,
                                        given |-> {"gun", "start", "pagesize"},
                                        feed |-> feed,
                                        url |-> changefeed_url(gun, start, pagesize),
                                        resp |-> c.returns[1]])
                      /\ UNCHANGED <<status, raised>>
    /\ UNCHANGED <<feed, remote, dirs, files, scenario, step, view, ops, ran, wait,
                   stuck>>

CallNext == CallAppend \/ CallChangefeed

CallSpec == CallInit /\ [][CallNext]_vars

\* ------------------------------------------- testclient.py: the waiting

\* The longest timeout tried, in seconds, and the longest a probe takes.
MaxTimeout == 3
MaxProbeTime == 1

WaitInit ==
    /\ feed = <<>>
    /\ remote = None
    /\ dirs = [d \in DirNames |-> EmptyDir]
    /\ files = {}
    /\ scenario = 0
    /\ step = 0
    /\ status = "testclient"
    /\ locals = NoLocals
    /\ view = [d \in DirNames |-> NoView]
    /\ ops = [k \in OpKinds |-> 0]
    /\ asked = None
    /\ raised = None
    /\ ran = None
    /\ wait = NoWait
    /\ stuck = {}
    /\ call = None

\* run() of testclient.py: "username" is assigned further down in the
\* function, so it is a local and reading it in the condition raises
\* UnboundLocalError, before wait_for_server and before Tester(...).run()
TestClientRun ==
    /\ status = "testclient" /\ wait.pc = "idle"
    /\ Raise(Exc("UnboundLocalError"))
    /\ UNCHANGED <<feed, remote, dirs, files, scenario, step, locals, view, ops,
                   asked, ran, wait, stuck, call>>

\* wait_for_server(server, timeout_in_seconds) called: start = time()
WaitEnter ==
    /\ status = "testclient" /\ wait.pc = "idle"
    /\ \E timeout_in_seconds \in 0..MaxTimeout :
          wait' = [pc |-> "loop", timeout |-> timeout_in_seconds, now |-> 0,
                   succeeded |-> FALSE, probes |-> 0]
    /\ UNCHANGED <<feed, remote, dirs, files, scenario, step, status, locals, view,
                   ops, asked, raised, ran, stuck, call>>

\* while time() <= start + timeout_in_seconds: curl; a non-zero exit status
\* sleeps one second and tries again, exit status 0 leaves the loop
WaitProbe ==
    /\ wait.pc = "loop" /\ wait.now <= wait.timeout
    /\ \E answered \in BOOLEAN, took \in 0..MaxProbeTime :
          wait' = IF answered
                  THEN [wait EXCEPT !.pc = "after", !.succeeded = TRUE,
                                    !.now = @ + took, !.probes = @ + 1]
                  ELSE [wait EXCEPT !.now = @ + took + 1, !.probes = @ + 1]
    /\ UNCHANGED <<feed, remote, dirs, files, scenario, step, status, locals, view,
                   ops, asked, raised, ran, stuck, call>>

\* the loop condition is false: the time is up
WaitExpire ==
    /\ wait.pc = "loop" /\ wait.now > wait.timeout
    /\ wait' = [wait EXCEPT !.pc = "after"]
    /\ UNCHANGED <<feed, remote, dirs, files, scenario, step, status, locals, view,
                   ops, asked, raised, ran, stuck, call>>

\* if not succeeded: raise Exception("... {0} ... {2} ...".format(server,
\* timeout_in_seconds)): format has two arguments, so {2} raises IndexError in
\* place of the Exception; else the function returns
WaitEnd ==
    /\ wait.pc = "after"
    /\ IF wait.succeeded
       THEN /\ wait' = [wait EXCEPT !.pc = "returned"]
            /\ UNCHANGED <<status, raised>>
       ELSE /\ wait' = [wait EXCEPT !.pc = "raised"]
            /\ Raise(Exc("IndexError"))
    /\ UNCHANGED <<feed, remote, dirs, files, scenario, step, locals, view, ops,
                   asked, ran, stuck, call>>

WaitNext == TestClientRun \/ WaitEnter \/ WaitProbe \/ WaitExpire \/ WaitEnd

WaitSpec == WaitInit /\ [][WaitNext]_vars

\* ------------------------------------------------------------ properties

\* The feed of repo_name, oldest first.
RepoHistory == History(feed, Some(repo_name))

\* The statement about to run, when there is one.
AtAssert(test, a, b) == AtStatement /\ Stmt = Check(test, a, b)

\* The index of the statement of test function s that reads the feed into
\* "changes" after the test's operations.
ChangesAt(s) ==
    CHOOSE i \in 1..Len(Tests[s]) :
        /\ Tests[s][i].op = "changefeed"
        /\ \A j \in (i + 1)..Len(Tests[s]) : Tests[s][j].op = "assert"

\* Test function s has read the feed after all of its operations.
Ended(s) == InTest /\ scenario = s /\ step > ChangesAt(s)

\* C1: after a publish from either trust directory, once "list" has run in
\* the primary and in the secondary, the two target listings are equal, line
\* for line; likewise the two delegation listings once "delegation list" has
\* run in both. In particular the listings the tests compare are equal.
C1_ListingsConverge ==
    /\ \A d \in DirNames \ {MainDir} :
          /\ (view[MainDir].targets # None /\ view[d].targets # None)
                => view[MainDir].targets = view[d].targets
          /\ (view[MainDir].delegations # None /\ view[d].delegations # None)
                => view[MainDir].delegations = view[d].delegations
    /\ AtAssert("eq", "targets1", "targets2") => locals.targets1 = locals.targets2
    /\ AtAssert("eq", "delegations1", "delegations2")
          => locals.delegations1 = locals.delegations2

\* The secondary has published a target under the delegation and both
\* directories have been listed since.
C1_Witness ==
    /\ scenario = 2
    /\ AtAssert("eq", "targets1", "targets2")
    /\ view[MainDir].targets # None /\ view[TempDirs[2]].targets # None
    /\ Len(locals.targets1) = 2
    /\ \E i \in 1..Len(locals.targets2) : locals.targets2[i].role = "targets/releases"

\* The answer to the last changefeed call, when it asked for the whole
\* history of repo_name, holds the whole history.
FullReadsAgree ==
    (/\ asked # None
     /\ asked[1].gun = Some(repo_name)
     /\ asked[1].start = Some(0)
     /\ asked[1].pagesize[1] >= Len(History(asked[1].feed, Some(repo_name))))
        => asked[1].resp.count = Len(History(asked[1].feed, Some(repo_name)))

\* C2 as stated: the feed of repo_name holds one record per completed publish,
\* key rotate, delegation add and remote delete.
C2_Original ==
    Len(RepoHistory) = ops.publish + ops.key_rotate + ops.delegation_add + ops.delete

\* C2, amended: at every point of the run the feed of repo_name holds one
\* record per completed publish, key rotate and remote delete; init, add and
\* delegation add are staged in the trust directory and add none. A read of
\* the whole history returns that many records.
C2_FeedCountsOperations ==
    /\ Len(RepoHistory) = ops.publish + ops.key_rotate + ops.delete
    /\ FullReadsAgree

\* The run has published, rotated, staged a delegation and deleted, and a
\* record of another GUN lies in the feed.
C2_Witness ==
    /\ ops.delete = 1 /\ ops.delegation_add = 1 /\ ops.key_rotate = 2
    /\ ops.publish = 5
    /\ Len(feed) > Len(RepoHistory)
    /\ asked # None /\ asked[1].resp.count = 7

\* C3 as stated: the delegation test ends with 4 records, the 3 it added
\* each from a publish, which makes 4 publishes since the start of the run.
C3_Original ==
    (Ended(2) /\ step = Len(Tests[2]) + 1)
        => (Len(RepoHistory) = 4 /\ ops.publish = 4)

\* C3, amended: the feed of repo_name holds exactly 1 record when
\* basic_repo_test ends, 4 when add_delegation_test ends (that test adds 3: one
\* from the snapshot key rotation and two from publishes) and 7 when
\* root_rotation_test ends (one from the root key rotation, two from
\* publishes); each time the test's read returns that many records, all of
\* category "update".
C3_CumulativeCounts ==
    /\ \A s \in 1..3 :
          Ended(s) =>
            /\ Len(RepoHistory) = <<1, 4, 7>>[s]
            /\ locals.changes.count = <<1, 4, 7>>[s]
            /\ \A i \in 1..Len(locals.changes.records) :
                  locals.changes.records[i].Category = "update"
            /\ \A i \in 1..Len(RepoHistory) : RepoHistory[i].Category = "update"
            /\ ops.publish = <<1, 3, 5>>[s]
            /\ ops.key_rotate = <<0, 1, 2>>[s]

\* root_rotation_test has read its 7 records.
C3_Witness ==
    /\ Ended(3) /\ step = Len(Tests[3]) + 1
    /\ locals.changes.count = 7
    /\ ops.publish = 5 /\ ops.key_rotate = 2

\* C4: every record returned by a changefeed call scoped to repo_name has GUN
\* repo_name, whatever else the feed holds, also after the remote deletion.
C4_RecordsCarryGun ==
    (asked # None /\ asked[1].gun = Some(repo_name))
        => \A i \in 1..Len(asked[1].resp.records) :
              asked[1].resp.records[i].GUN = repo_name

\* A scoped read after the deletion, of a feed that holds another GUN's
\* record before the returned one.
C4_Witness ==
    /\ asked # None /\ asked[1].gun = Some(repo_name)
    /\ ops.delete = 1
    /\ asked[1].resp.count = 1
    /\ \E i \in 1..Len(asked[1].feed) :
          /\ asked[1].feed[i].GUN = other_gun
          /\ asked[1].feed[i].ID < asked[1].resp.records[1].ID

\* The last changefeed call asked for repo_name from this start with this
\* page size.
Asked(start, pagesize) ==
    /\ asked # None
    /\ asked[1].gun = Some(repo_name)
    /\ asked[1].start = start
    /\ asked[1].pagesize = Some(pagesize)

\* The records of repo_name a page holds, read against the server's feed.
Page(start, pagesize) ==
    changefeed(feed, Some(repo_name), start, Some(pagesize)).records

\* C5: with H the forward history of repo_name, a page of size 1 whose start
\* is the identifier of H[4] is exactly [H[5]] (counting from 0): the start
\* is exclusive. It holds of every feed the run builds with at least 6 records
\* of repo_name, so also once the deletion has been appended, and of the page
\* changefeed_test reads against the history it saved before the deletion.
C5_ForwardFromFifth ==
    /\ Len(RepoHistory) >= 6
          => Page(Some(RepoHistory[5].ID), 1) = <<RepoHistory[6]>>
    /\ (locals.start # None /\ Asked(locals.start, 1))
          => /\ locals.start = Some(locals.all_changes.records[5].ID)
             /\ asked[1].resp.count = 1
             /\ asked[1].resp.records = <<locals.all_changes.records[6]>>

\* changefeed_test has read the forward page after the deletion, and a record
\* of another GUN lies between H[4] and H[5].
C5_Witness ==
    /\ locals.start # None /\ Asked(locals.start, 1)
    /\ ops.delete = 1
    /\ Len(History(asked[1].feed, Some(repo_name))) = 8
    /\ asked[1].resp.records[1].ID > locals.start[1] + 1

\* C6: with H the forward history of repo_name, a page of size -1 whose start
\* is the identifier of H[4] is exactly [H[3]]: a negative page size scans
\* backward from the start, which is exclusive.
C6_BackwardFromFifth ==
    /\ Len(RepoHistory) >= 5
          => Page(Some(RepoHistory[5].ID), -1) = <<RepoHistory[4]>>
    /\ (locals.start # None /\ Asked(locals.start, -1))
          => /\ locals.start = Some(locals.all_changes.records[5].ID)
             /\ asked[1].resp.count = 1
             /\ asked[1].resp.records = <<locals.all_changes.records[4]>>

\* changefeed_test has read the backward page, and a record of another GUN
\* lies between H[3] and H[4].
C6_Witness ==
    /\ locals.start # None /\ Asked(locals.start, -1)
    /\ ops.delete = 1
    /\ asked[1].resp.records[1].ID < locals.start[1] - 1

\* C7: once repo_name has been deleted remotely, a page with start -1 and page
\* size 1 holds exactly one record, the last of the history, and its category
\* is "deletion".
C7_MostRecentIsDeletion ==
    /\ ops.delete >= 1
          => /\ Page(Some(-1), 1) = <<RepoHistory[Len(RepoHistory)]>>
             /\ Page(Some(-1), 1)[1].Category = "deletion"
    /\ (Asked(Some(-1), 1) /\ ops.delete >= 1)
          => /\ asked[1].resp.count = 1
             /\ asked[1].resp.records[1].Category = "deletion"

\* changefeed_test has read the most recent record after the deletion, and
\* the feed ends with a record of another GUN.
C7_Witness ==
    /\ Asked(Some(-1), 1) /\ ops.delete = 1
    /\ asked[1].resp.records[1].Category = "deletion"
    /\ asked[1].feed[Len(asked[1].feed)].GUN = other_gun

\* The history the last changefeed call was answered from: the feed of the
\* GUN it named, or the whole feed when it named none.
AskedHistory == History(asked[1].feed, asked[1].gun)

\* C8: over a history H of at least one record, a page with start None and
\* page size 1 is exactly [H[0]].
C8_DefaultStartFirstRecord ==
    (/\ asked # None
     /\ asked[1].start = None
     /\ asked[1].pagesize = Some(1)
     /\ Len(AskedHistory) >= 1)
        => /\ asked[1].resp.records = <<AskedHistory[1]>>
           /\ asked[1].resp.count = 1

\* Such a page, read for repo_name from a feed of several records that starts
\* with a record of another GUN.
C8_Witness ==
    /\ asked # None
    /\ asked[1].start = None /\ asked[1].pagesize = Some(1)
    /\ asked[1].gun = Some(repo_name)
    /\ Len(AskedHistory) >= 2
    /\ asked[1].feed[1].GUN = other_gun
    /\ asked[1].resp.count = 1

\* C9: over a history H of length L, a page with start None and a page size
\* of at least L has count L, and its records are H: none more, none fewer,
\* none twice.
C9_WholeHistory ==
    (/\ asked # None
     /\ asked[1].start = None
     /\ asked[1].pagesize # None
     /\ asked[1].pagesize[1] >= Len(AskedHistory))
        => /\ asked[1].resp.count = Len(AskedHistory)
           /\ asked[1].resp.records = AskedHistory

\* A page size above the length of a history of several records.
C9_Witness ==
    /\ asked # None
    /\ asked[1].start = None /\ asked[1].pagesize # None
    /\ asked[1].gun = Some(repo_name)
    /\ Len(AskedHistory) >= 2
    /\ Len(asked[1].feed) > Len(AskedHistory)
    /\ asked[1].pagesize[1] > Len(AskedHistory)
    /\ asked[1].resp.count = Len(AskedHistory)

\* The identifiers of a sequence of records.
Ids(recs) == {recs[i].ID : i \in 1..Len(recs)}

\* C10: for every page asked with a start and a page size n: the page holds
\* at most |n| records and count is their number; for n > 0 the identifiers
\* ascend and lie after the start, for n < 0 they descend and lie before the
\* start (a start None is the default position 0; a negative start stands for
\* the most recent record, and a page read from it ends with that record);
\* and the page is a window of the history: every record of the history
\* between two returned records is returned.
C10_PageIsWindow ==
    (asked # None /\ asked[1].pagesize # None) =>
        LET recs == asked[1].resp.records
            n == asked[1].pagesize[1]
            s == IF asked[1].start = None THEN 0 ELSE asked[1].start[1]
            H == AskedHistory
        IN  /\ asked[1].resp.count = Len(recs)
            /\ Len(recs) <= Abs(n)
            /\ n > 0 => \A i \in 1..(Len(recs) - 1) : recs[i].ID < recs[i + 1].ID
            /\ n < 0 => \A i \in 1..(Len(recs) - 1) : recs[i].ID > recs[i + 1].ID
            /\ (n > 0 /\ s >= 0) => \A i \in 1..Len(recs) : recs[i].ID > s
            /\ (n < 0 /\ s >= 0) => \A i \in 1..Len(recs) : recs[i].ID < s
            /\ (s < 0 /\ recs # <<>>) => H[Len(H)].ID \in Ids(recs)
            /\ \A i \in 1..Len(recs) : \E j \in 1..Len(H) : H[j] = recs[i]
            /\ \A j \in 1..Len(H) :
                  (\E a, b \in 1..Len(recs) :
                        recs[a].ID < H[j].ID /\ H[j].ID < recs[b].ID)
                     => H[j].ID \in Ids(recs)

\* A backward page of two records of repo_name from an absolute start, with
\* a record of another GUN between the two.
C10_Witness ==
    /\ asked # None /\ asked[1].pagesize = Some(-2)
    /\ asked[1].gun = Some(repo_name)
    /\ asked[1].start # None /\ asked[1].start[1] > 0
    /\ asked[1].resp.count = 2
    /\ asked[1].resp.records[1].ID = asked[1].resp.records[2].ID + 2

\* Whether sequence s is the beginning of sequence t.
IsPrefix(s, t) == Len(s) <= Len(t) /\ \A i \in 1..Len(s) : s[i] = t[i]

\* C11: the identifiers of the history of repo_name increase strictly in
\* history order; no step, the remote deletion included, removes, reorders or
\* renumbers a record of the feed (the feed before a step is the beginning of
\* the feed after it); and the records read into all_changes before the
\* deletion stay the beginning of the history, so their positions and
\* identifiers mean the same to the queries that follow the deletion.
C11_FeedAppendOnly ==
    /\ [](\A i, j \in 1..Len(RepoHistory) :
             i < j => RepoHistory[i].ID < RepoHistory[j].ID)
    /\ [](locals.all_changes # None =>
             IsPrefix(locals.all_changes.records, RepoHistory))
    /\ [][IsPrefix(feed, feed')]_vars

\* The deletion has been recorded after all_changes was read: 7 records
\* saved, 8 in the history, the last one the deletion.
C11_Witness ==
    /\ locals.all_changes # None
    /\ Len(locals.all_changes.records) = 7
    /\ Len(RepoHistory) = 8
    /\ RepoHistory[8].Category = "deletion"
    /\ RepoHistory[8].ID > 8

\* The query of the last changefeed request.
AskedQuery == asked[1].url.query

\* C12: the query of a changefeed request has a change_id term exactly when
\* start is not None, and the term reads back as start itself, 0 and negative
\* values included; it has a records term exactly when pagesize is not None,
\* and the term reads back as pagesize itself, negative values included.
C12_TermsFollowNone ==
    asked # None =>
        /\ QueryTerm(AskedQuery, "change_id") # None <=> asked[1].start # None
        /\ asked[1].start # None =>
              ParseInt(QueryTerm(AskedQuery, "change_id")[1]) = asked[1].start[1]
        /\ QueryTerm(AskedQuery, "records") # None <=> asked[1].pagesize # None
        /\ asked[1].pagesize # None =>
              ParseInt(QueryTerm(AskedQuery, "records")[1]) = asked[1].pagesize[1]
        /\ Len(AskedQuery) = (IF asked[1].start # None THEN 1 ELSE 0)
                             + (IF asked[1].pagesize # None THEN 1 ELSE 0)

\* A request with start 0 and a negative page size: both terms are sent.
C12_Witness ==
    /\ asked # None
    /\ asked[1].start = Some(0)
    /\ asked[1].pagesize = Some(-2)
    /\ AskedQuery = <<[key |-> "change_id", val |-> <<"0">>],
                      [key |-> "records", val |-> <<"-", "2">>]>>

\* The claim as stated: a call without a start argument sends no change_id
\* term.
C13_Original ==
    (asked # None /\ "start" \notin asked[1].given) =>
        QueryTerm(AskedQuery, "change_id") = None

\* C13: a call without a start argument takes the default start 0 and sends
\* change_id=0; the request carries no change_id term only when the caller
\* passes None as start.
C13_OmittedStartSendsZero ==
    asked # None =>
        /\ "start" \notin asked[1].given =>
              QueryTerm(AskedQuery, "change_id") = Some(<<"0">>)
        /\ QueryTerm(AskedQuery, "change_id") = None =>
              ("start" \in asked[1].given /\ asked[1].start = None)

\* A call that names the gun only: change_id=0 and records=100 are sent.
C13_Witness ==
    /\ asked # None
    /\ asked[1].given = {"gun"}
    /\ AskedQuery = <<[key |-> "change_id", val |-> <<"0">>],
                      [key |-> "records", val |-> <<"1", "0", "0">>]>>

\* The root metadata the run can see: the published one and each trust
\* directory's cached copy.
RootMetadata ==
    {m \in {remote} \cup {dirs[d].meta : d \in DirNames} : m # None}

\* C14: wherever root metadata exists, published or cached in a trust
\* directory, its list of trusted root key identifiers has exactly one
\* element, and that key is among the metadata's keys; the lists the test reads
\* before and after the rotation have one element each.
C14_OneTrustedRootKey ==
    /\ \A m \in RootMetadata :
          Len(m[1].rootkeyids) = 1 /\ m[1].rootkeyids[1] \in m[1].keys
    /\ locals.old_root_certs # None => Len(locals.old_root_certs) = 1
    /\ locals.root_certs # None => Len(locals.root_certs) = 1

\* After the rotation and the re-sync: the new key is the one trusted key, the
\* old one is still among the keys, and the test has read both lists.
C14_Witness ==
    /\ remote # None /\ remote[1].rootkeyids = <<"root2">>
    /\ {"root1", "root2"} \subseteq remote[1].keys
    /\ locals.old_root_certs = <<"root1">>
    /\ locals.root_certs = <<"root2">>

\* The assert about to run tests this relation of this local.
AtCheck(test, a) ==
    AtStatement /\ Stmt.op = "assert" /\ Stmt.test = test /\ Stmt.a = a

\* C15: once the primary has rotated the root key and the secondary has been
\* re-synced, the root metadata read from the secondary holds one key more
\* than the count taken before the rotation, and, where the test compares
\* them, its trusted root key identifiers differ from those read before the
\* rotation; what was read is the secondary's cached copy.
C15_RotationAddsOneKey ==
    /\ AtCheck("numkeys", "root_json") =>
          /\ Cardinality(locals.root_json.keys) = locals.old_root_num_keys + 1
          /\ dirs[TempDirs[scenario]].meta = Some(locals.root_json)
    /\ AtCheck("ne", "root_certs") =>
          /\ locals.root_certs # locals.old_root_certs
          /\ locals.root_certs = dirs[TempDirs[scenario]].meta[1].rootkeyids
          /\ locals.root_certs[1] \notin
                {locals.old_root_certs[i] : i \in 1..Len(locals.old_root_certs)}

\* The test is about to compare the lists of trusted root keys: the old one
\* holds root1, the new one root2, and the keys went from 4 to 5.
C15_Witness ==
    /\ AtCheck("ne", "root_certs")
    /\ locals.old_root_certs = <<"root1">>
    /\ locals.root_certs = <<"root2">>
    /\ locals.old_root_num_keys = 4
    /\ Cardinality(locals.root_json.keys) = 5

\* An exception was raised and nothing caught it.
Uncaught == raised # None /\ ~raised[1].caught

\* C16: a client invocation that ends with a non-zero exit status raises, and
\* an exception that leaves a test function (a failed assertion, a failed
\* client invocation, an expression that raises) ends the run as failed; from
\* then on no client invocation, no changefeed request, no statement and no
\* test function follows: the position, the operation counts, the last
\* invocation, the last request, the locals, the trust directories, the
\* published metadata and the files stay as they are.
C16_FailureAborts ==
    /\ [](Uncaught => status = "failed")
    /\ []((ran # None /\ ran[1].retcode # 0) => (Uncaught /\ raised = ran[1].raises))
    /\ [][status = "failed" =>
            /\ status' = "failed"
            /\ UNCHANGED <<scenario, step, ops, asked, ran, raised, locals, dirs,
                           remote, files>>]_vars

\* The run failed inside the second test function, after a publish, on a
\* client invocation that exited with a non-zero status.
C16_Witness ==
    /\ status = "failed"
    /\ scenario = 2 /\ step \in 1..Len(Tests[2])
    /\ Stmt.op = "run"
    /\ ran # None /\ ran[1].retcode = 2
    /\ raised # None /\ raised[1].type = "CalledProcessError"
    /\ ops.publish >= 1

\* All four test functions have returned and Tester.run is over.
AllTestsDone == scenario = Len(Tests) + 1 /\ status \in {"passed", "done"}

C17_NoSentinel ==
    /\ status = "done" /\ AllTestsDone
    /\ Sentinel \notin files
    /\ raised # None /\ raised[1].caught

\* The working directories and marker files of the run.
WorkPaths == DirNames \cup {TempFiles[i] : i \in 1..Len(TempFiles)}

\* The claim as stated: after a successful run no working directory and no
\* marker file is left; after a failure inside a test function the primary
\* directory and that test's secondary directory and marker file are there.
C18_Original ==
    /\ status \in {"passed", "done"} => files \cap WorkPaths = {}
    /\ (status = "failed" /\ scenario \in 1..Len(Tests) /\ step >= 1) =>
          {MainDir, TempDirs[scenario], TempFiles[scenario]} \subseteq files

\* C18: when Tester.run has returned, the primary directory and every
\* secondary directory and marker file whose removal did not fail are gone;
\* one whose removal raised OSError is left without the run failing. When a
\* test function fails, the primary directory and that test's secondary
\* directory and marker file are left in place, and those of the tests before
\* it are gone unless their removal failed.
C18_CleanupBestEffort ==
    /\ status \in {"passed", "done"} => files \cap WorkPaths = stuck
    /\ (status = "failed" /\ scenario \in 1..Len(Tests) /\ step >= 1) =>
          /\ {MainDir, TempDirs[scenario], TempFiles[scenario]} \subseteq files
          /\ \A s \in 1..(scenario - 1) :
                {TempDirs[s], TempFiles[s]} \cap files \subseteq stuck

\* A run that ended well with every path removed, and nothing unremovable.
C18_Witness ==
    /\ status = "done" /\ stuck = {}
    /\ files \cap WorkPaths = {}
    /\ ops.delete = 1

\* A failure inside the third test function: its paths and the primary
\* directory are left, the earlier tests' are gone.
C18_FailedWitness ==
    /\ status = "failed" /\ scenario = 3 /\ step >= 1 /\ stuck = {}
    /\ files \cap WorkPaths = {MainDir, TempDirs[3], TempFiles[3]}

\* C19: Client.run returns exactly when the subprocess exits with status 0,
\* and what it returns is the captured output; for every other exit status it
\* returns nothing and raises CalledProcessError carrying that exit status,
\* the command that was run and the captured output, and that exception is the
\* one that ends the run.
C19_RunReturnsOrRaises ==
    ran # None =>
        /\ ran[1].returns # None <=> ran[1].retcode = 0
        /\ ran[1].raises # None <=> ran[1].retcode # 0
        /\ ran[1].retcode = 0 => ran[1].returns = Some(ran[1].output)
        /\ ran[1].retcode # 0 =>
              /\ ran[1].raises[1].type = "CalledProcessError"
              /\ ran[1].raises[1].returncode = ran[1].retcode
              /\ ran[1].raises[1].cmd = ran[1].cmd
              /\ ran[1].raises[1].output = ran[1].output
              /\ raised = ran[1].raises
              /\ ran[1].cmd = command(Stmt.args, TrustDir(Stmt.dir))

\* A publish in the primary directory exited with status 1: the exception
\* carries the command line, the status and the output.
C19_Witness ==
    /\ ran # None /\ ran[1].retcode = 1
    /\ raised # None /\ raised[1].returncode = 1
    /\ raised[1].cmd = <<"notary", "-s", "https://notary", "--tlscacert", CaFile,
                         "-d", MainDir, "publish", repo_name>>
    /\ raised[1].output = FailOutput
    /\ ran[1].returns = None

\* An invocation that exited with status 0 and returned its output.
C19_Returned ==
    /\ ran # None /\ ran[1].retcode = 0
    /\ ran[1].returns = Some(ran[1].output) /\ ran[1].output # <<>>
    /\ locals.targets1 = ran[1].output

\* Tester.run has been entered.
TesterStarted == status \in {"running", "passed", "done"} \/ (status = "failed" /\ ran # None)

\* C20 as stated: the test functions start only after a liveness probe has
\* succeeded, and the driver that waits (testclient.py) gives up only after it
\* has probed the server, when no probe succeeded within the timeout.
C20_Original ==
    /\ TesterStarted => (wait.succeeded /\ wait.probes >= 1)
    /\ (status = "failed" /\ scenario = 0) =>
          (wait.probes >= 1 /\ ~wait.succeeded /\ wait.now > wait.timeout)

\* What wait_for_server does when it is called: it returns only after a
\* probe has succeeded, it raises when none has by the time the timeout has
\* passed, it makes at most timeout + 1 probes that fail, and the test functions
\* are not started by it.
WaitForServerBounded ==
    /\ wait.pc = "returned" => (wait.succeeded /\ wait.probes >= 1 /\ raised = None)
    /\ wait.pc = "raised" =>
          (~wait.succeeded /\ wait.now > wait.timeout /\ status = "failed")
    /\ wait.probes <= wait.timeout + 2
    /\ wait.now <= wait.timeout + MaxProbeTime + 1
    /\ status = "testclient" \/ (status = "failed" /\ raised # None)

\* The client operations that change the Identity, locally or on the server.
MutatingKinds == {"init", "add", "publish", "delete", "key_rotate", "key_import",
                  "delegation_add"}

\* C21: the remote delete completes at most once in a run, and only inside the
\* last test function, which starts after the first three have returned; a
\* deletion record is the last record of the Identity's history; and once the
\* delete has completed no mutating client operation completes and the
\* Identity's history and published metadata stay as they are.
C21_DeleteOnceAtTheEnd ==
    /\ [](ops.delete <= 1)
    /\ [](ops.delete = 1 => (scenario >= Len(Tests) /\ remote = None))
    /\ [](\A i \in 1..Len(RepoHistory) :
             RepoHistory[i].Category = "deletion" =>
                (i = Len(RepoHistory) /\ ops.delete = 1))
    /\ [][ops.delete = 1 =>
            /\ \A k \in MutatingKinds : ops'[k] = ops[k]
            /\ RepoHistory' = RepoHistory
            /\ remote' = remote]_vars

\* The delete has completed in the last test function, after 5 publishes and
\* 2 key rotations, and the test has gone on to query the feed.
C21_Witness ==
    /\ ops.delete = 1 /\ scenario = Len(Tests)
    /\ ops.publish = 5 /\ ops.key_rotate = 2
    /\ RepoHistory[Len(RepoHistory)].Category = "deletion"
    /\ asked # None /\ asked[1].start = Some(-1)

\* The feed request was sent in the last call.
FeedQueried == \E i \in 1..Len(call[1].trace) : call[1].trace[i] = "feed"

\* C22 as stated: a call whose token response has a status other than 200, or
\* a body without the token field, fails and sends no feed query; a bearer
\* token comes from a token response with status 200 and a token.
C22_Original ==
    call # None =>
        /\ (call[1].token.status # 200 \/ call[1].token.body # "json") =>
              (call[1].raises # None /\ ~FeedQueried)
        /\ call[1].bearer # None =>
              (call[1].bearer[1].status = 200 /\ call[1].bearer[1].body = "json")

\* What Client.changefeed does: the call fails before the feed query exactly
\* when the body of the token response is not JSON or has no token field,
\* whatever the status; the bearer is the token of the response received.
TokenBodyDecides ==
    call # None =>
        /\ call[1].token.body # "json" <=> ~FeedQueried
        /\ ~FeedQueried => (call[1].raises # None /\ call[1].bearer = None)
        /\ FeedQueried => call[1].bearer = Some(call[1].token)

\* The two listing commands.
Listings == {<<"list", repo_name>>, <<"delegation", "list", repo_name>>}

\* Command args run in a trust directory in state d, against the server as it
\* is now.
Listed(args, d) == Notary(args, "", d, remote, feed)

OpsTotal ==
    ops.init + ops.add + ops.publish + ops.list + ops.verify + ops.delete
    + ops.key_rotate + ops.key_import + ops.key_list + ops.delegation_add
    + ops.delegation_list

\* C24: the test functions are entered in the order basic lifecycle (its first
\* statement is init), delegation (key rotate, after 1 publish), root rotation
\* (list, after 3 publishes and the delegation), pagination (a changefeed
\* query, after 5 publishes and 2 key rotations, before any delete); the next
\* one is entered only when the one before has run all of its statements; the
\* run has one position, which moves by one statement at a time; and a step
\* completes at most one client invocation or one changefeed call, never both.
C24_StrictSequence ==
    /\ []((AtStatement /\ step = 1) =>
            /\ scenario = 1 => (Stmt.op = "run" /\ Stmt.args[1] = "init" /\ OpsTotal = 0)
            /\ scenario = 2 => (Stmt.op = "run" /\ Stmt.args[1] = "key"
                                /\ ops.publish = 1 /\ ops.delegation_add = 0)
            /\ scenario = 3 => (Stmt.op = "run" /\ Stmt.args[1] = "list"
                                /\ ops.publish = 3 /\ ops.delegation_add = 1
                                /\ ops.key_rotate = 1)
            /\ scenario = 4 => (Stmt.op = "changefeed" /\ ops.publish = 5
                                /\ ops.key_rotate = 2 /\ ops.delete = 0))
    /\ [][/\ \/ scenario' = scenario
             \/ /\ scenario' = scenario + 1
                /\ status = "running" /\ raised = None
                /\ step = Len(Tests[scenario]) + 1 /\ step' = 0
          /\ scenario' = scenario => step' \in {step, step + 1}
          /\ OpsTotal' \in {OpsTotal, OpsTotal + 1}
          /\ OpsTotal' # OpsTotal =>
                (step' = step + 1 /\ call' = call /\ asked' = asked)
          /\ (call' # call \/ asked' # asked) => (ops' = ops /\ ran' = ran)]_vars

\* The last test function has been entered after the first three ran all of
\* their statements, and has made its first query.
C24_Witness ==
    /\ scenario = 4 /\ step = 2 /\ status = "running"
    /\ ops.publish = 5 /\ ops.key_rotate = 2 /\ ops.delegation_add = 1
    /\ asked # None /\ asked[1].pagesize = Some(1)

\* How often an event occurs in the trace of the last call.
Times(event) ==
    Cardinality({i \in 1..Len(call[1].trace) : call[1].trace[i] = event})

Executing == scenario \in 1..Len(Tests) /\ step >= 1 /\ status \in {"running", "failed"}

\* C26 as stated: each test function gets a marker file and an empty
\* secondary directory no earlier one used, and while it executes the working
\* directories that exist are exactly the primary and its secondary.
C26_Original ==
    /\ (Executing /\ step = 1) =>
          /\ dirs[TempDirs[scenario]] = EmptyDir
          /\ \A s \in 1..(scenario - 1) :
                TempDirs[s] # TempDirs[scenario] /\ TempFiles[s] # TempFiles[scenario]
    /\ Executing => files \cap DirNames = {MainDir, TempDirs[scenario]}

\* C26: when a test function starts, its marker file and secondary directory
\* exist, are not those of an earlier test function, and the secondary is
\* empty; the directories of the test functions still to come hold nothing;
\* while it executes, the directories on disk are the primary, its secondary,
\* and at most earlier secondaries whose removal failed; and its steps change
\* no directory but the primary and its own secondary.
C26_FreshSecondary ==
    /\ [](Executing =>
            /\ {MainDir, TempDirs[scenario], TempFiles[scenario]} \subseteq files
            /\ (files \cap DirNames) \ {MainDir, TempDirs[scenario]} \subseteq stuck
            /\ step = 1 => dirs[TempDirs[scenario]] = EmptyDir
            /\ \A s \in 1..(scenario - 1) :
                  TempDirs[s] # TempDirs[scenario]
                  /\ TempFiles[s] # TempFiles[scenario]
            /\ \A s \in (scenario + 1)..Len(Tests) : dirs[TempDirs[s]] = EmptyDir)
    /\ [][(Executing /\ scenario' = scenario) =>
            \A d \in DirNames \ {MainDir, TempDirs[scenario]} : dirs'[d] = dirs[d]]_vars

\* The third test function has started: its secondary is empty although the
\* primary holds keys and metadata, and only the two directories are on disk.
C26_Witness ==
    /\ scenario = 3 /\ step = 1 /\ status = "running"
    /\ dirs[TempDirs[3]] = EmptyDir
    /\ dirs[MainDir].meta # None /\ dirs[MainDir].keys # {}
    /\ files \cap DirNames = {MainDir, TempDirs[3]}
    /\ TempFiles[3] \in files

\* The second test's secondary could not be removed and is still on disk,
\* with its key, while the third test function executes.
C26_Leftover ==
    /\ scenario = 3 /\ step >= 1 /\ status = "running"
    /\ TempDirs[2] \in files /\ dirs[TempDirs[2]].keys # {}

\* The listing of a trust directory taken since the last change of the
\* Identity on the server, None when there is none.
Fresh(d) == view[d].targets
FreshDelegations(d) == view[d].delegations

\* The assert about to run, or the assignment, uses this local.
Uses(name) ==
    /\ AtStatement
    /\ \/ Stmt.op = "assert" /\ Stmt.a = name
       \/ Stmt.op = "assert" /\ Stmt.test = "eq" /\ Stmt.b = name
       \/ Stmt.op = "assign" /\ Stmt.out \in {"expected_target", "expected_targets"}
          /\ name = "targets1"

\* C27: when an assert or an expression is about to use a listing, that
\* listing was printed by a list command run in that directory after the last
\* publish, key rotation or delete of the Identity (targets1 and delegations1
\* in the primary, targets2 and delegations2 in the secondary); and when
\* root.json of a directory is about to be read, a list has run in that
\* directory since then, so the cached metadata is the published one.
C27_ReadsFollowListing ==
    /\ Uses("targets1") => Fresh(MainDir) = Some(locals.targets1)
    /\ Uses("targets2") => Fresh(TempDirs[scenario]) = Some(locals.targets2)
    /\ Uses("delegations1") => FreshDelegations(MainDir) = Some(locals.delegations1)
    /\ Uses("delegations2") =>
          FreshDelegations(TempDirs[scenario]) = Some(locals.delegations2)
    /\ (AtStatement /\ Stmt.op = "read_root") =>
          /\ Fresh(TrustDir(Stmt.dir)) # None
          /\ remote # None /\ dirs[TrustDir(Stmt.dir)].meta = remote

\* After the root rotation in the primary the secondary has been listed and
\* its root.json is about to be read: the cache holds the rotated root.
C27_Witness ==
    /\ AtStatement /\ Stmt.op = "read_root" /\ scenario = 3
    /\ ops.key_rotate = 2
    /\ Fresh(TempDirs[3]) # None
    /\ dirs[TempDirs[3]].meta = remote
    /\ remote[1].rootkeyids = <<"root2">>

====
